---- MODULE Spec2Model ----
(***************************************************************************)
(* CORD-19 data explorer: the CORD19Analyzer of cord19_analysis.py and the *)
(* Streamlit script app.py that drives it.                                 *)
(*                                                                         *)
(* A text value is a sequence of one-character strings, so that lower(),   *)
(* strip(), split() and date parsing are computed and not assumed.  A cell *)
(* of a table is a tagged record: Str(s), NaN (pandas' float null), NaT    *)
(* (the datetime null), Ts(y, m, d) (a Timestamp), IntCell(n) (an integer  *)
(* of an int column) and FloatCell(n) (the number n held in a float64      *)
(* column).  A table is [columns, nrows, data]: the column labels in       *)
(* order, the length of the index, and the cells of each column.           *)
(***************************************************************************)
EXTENDS Integers, Sequences, FiniteSets, TLC

(***************************************************************************)
(* Python values                                                           *)
(***************************************************************************)
None == [none |-> TRUE]

Str(s) == [t |-> "str", v |-> s]
NaN == [t |-> "nan"]
NaT == [t |-> "nat"]
Ts(y, m, d) == [t |-> "ts", v |-> <<y, m, d>>]
IntCell(n) == [t |-> "int", v |-> n]
FloatCell(n) == [t |-> "float", v |-> n]

\* pd.isnull / pd.notnull on one cell
IsNull(c) == c.t \in {"nan", "nat"}

(***************************************************************************)
(* str methods                                                             *)
(***************************************************************************)
UpperCase == <<"A", "B", "C", "D", "E", "F", "G", "H", "I", "J", "K", "L", "M",
               "N", "O", "P", "Q", "R", "S", "T", "U", "V", "W", "X", "Y", "Z">>
LowerCase == <<"a", "b", "c", "d", "e", "f", "g", "h", "i", "j", "k", "l", "m",
               "n", "o", "p", "q", "r", "s", "t", "u", "v", "w", "x", "y", "z">>
Whitespace == {" ", "\t", "\n"}
Digits == <<"0", "1", "2", "3", "4", "5", "6", "7", "8", "9">>

LowerChar(c) ==
    IF \E i \in DOMAIN UpperCase : UpperCase[i] = c
    THEN LowerCase[CHOOSE i \in DOMAIN UpperCase : UpperCase[i] = c]
    ELSE c

\* str.lower()
Lower(s) == [i \in DOMAIN s |-> LowerChar(s[i])]

RECURSIVE LStrip(_)
LStrip(s) ==
    IF s # <<>> /\ Head(s) \in Whitespace THEN LStrip(Tail(s)) ELSE s

RECURSIVE RStrip(_)
RStrip(s) ==
    IF s # <<>> /\ s[Len(s)] \in Whitespace
    THEN RStrip(SubSeq(s, 1, Len(s) - 1))
    ELSE s

\* str.strip()
Strip(s) == RStrip(LStrip(s))

\* str.split() with no separator: the maximal runs of non-whitespace
RECURSIVE SplitFrom(_, _, _)
SplitFrom(s, cur, acc) ==
    IF s = <<>>
    THEN IF cur = <<>> THEN acc ELSE Append(acc, cur)
    ELSE IF Head(s) \in Whitespace
         THEN SplitFrom(Tail(s), <<>>, IF cur = <<>> THEN acc ELSE Append(acc, cur))
         ELSE SplitFrom(Tail(s), Append(cur, Head(s)), acc)

Split(s) == SplitFrom(s, <<>>, <<>>)

\* ' '.join(parts)
RECURSIVE Join(_)
Join(parts) ==
    IF parts = <<>> THEN <<>>
    ELSE IF Len(parts) = 1 THEN parts[1]
    ELSE parts[1] \o <<" ">> \o Join(Tail(parts))

(***************************************************************************)
(* Tables                                                                  *)
(***************************************************************************)
Range(f) == {f[i] : i \in DOMAIN f}

HasColumn(tb, c) == \E i \in DOMAIN tb.columns : tb.columns[i] = c

\* df[c] = vals: an existing column is replaced in place, a new one is
\* appended after the last column.
SetCol(tb, c, vals) ==
    IF HasColumn(tb, c)
    THEN [tb EXCEPT !.data = [k \in DOMAIN tb.data |-> IF k = c THEN vals ELSE tb.data[k]]]
    ELSE [columns |-> Append(tb.columns, c),
          nrows   |-> tb.nrows,
          data    |-> [k \in DOMAIN tb.data \cup {c} |->
                          IF k = c THEN vals ELSE tb.data[k]]]

\* Series.dropna()
RECURSIVE DropNa(_)
DropNa(col) ==
    IF col = <<>> THEN <<>>
    ELSE IF IsNull(Head(col)) THEN DropNa(Tail(col))
    ELSE <<Head(col)>> \o DropNa(Tail(col))

\* The dtype pandas gives a column of text and nulls: an all-null column of
\* a non-empty table is float64, any other is object.
IsObjectColumn(col) == col = <<>> \/ \E i \in DOMAIN col : col[i].t = "str"

(***************************************************************************)
(* pd.to_datetime(..., errors='coerce') on text of the form YYYY-MM-DD     *)
(***************************************************************************)
IsDigit(c) == \E i \in DOMAIN Digits : Digits[i] = c
DigitVal(c) == (CHOOSE i \in DOMAIN Digits : Digits[i] = c) - 1

IsLeap(y) == (y % 4 = 0 /\ y % 100 # 0) \/ y % 400 = 0

DaysInMonth(y, m) ==
    IF m = 2 THEN (IF IsLeap(y) THEN 29 ELSE 28)
    ELSE IF m \in {4, 6, 9, 11} THEN 30 ELSE 31

ParseDate(s) ==
    IF /\ Len(s) = 10
       /\ s[5] = "-" /\ s[8] = "-"
       /\ \A i \in {1, 2, 3, 4, 6, 7, 9, 10} : IsDigit(s[i])
    THEN LET y == 1000 * DigitVal(s[1]) + 100 * DigitVal(s[2])
                  + 10 * DigitVal(s[3]) + DigitVal(s[4])
             m == 10 * DigitVal(s[6]) + DigitVal(s[7])
             d == 10 * DigitVal(s[9]) + DigitVal(s[10])
         IN  IF m \in 1..12 /\ d >= 1 /\ d <= DaysInMonth(y, m)
             THEN Ts(y, m, d)
             ELSE NaT
    ELSE NaT

\* (variant: values that are already datetimes are not recognised)
ToDatetimeCellTextOnly(c) ==
    IF c.t = "str" THEN ParseDate(c.v) ELSE NaT

ToDatetimeCell(c) ==
    IF c.t = "ts" THEN c
    ELSE IF c.t = "str" THEN ParseDate(c.v)
    ELSE NaT

ToDatetime(col) == [i \in DOMAIN col |-> ToDatetimeCell(col[i])]

\* Series.dt.year: int32 when no value is NaT, float64 with NaN otherwise
DtYear(col) ==
    IF \E i \in DOMAIN col : col[i].t = "nat"
    THEN [i \in DOMAIN col |-> IF col[i].t = "nat" THEN NaN ELSE FloatCell(col[i].v[1])]
    ELSE [i \in DOMAIN col |-> IntCell(col[i].v[1])]

\* Series.fillna(value) on a numeric column
FillNa(col, value) ==
    [i \in DOMAIN col |-> IF col[i].t = "nan" THEN FloatCell(value) ELSE col[i]]

DefaultYear == 2020


(***************************************************************************)
(* CORD19Analyzer                                                          *)
(***************************************************************************)
Missing == [missing |-> TRUE]

\* load_data: read_csv's table, or None when the file is not found
LoadData(f) == IF f = Missing THEN None ELSE f

\* lambda x: len(str(x).split()) if pd.notnull(x) else 0
AbstractWordCount(col) ==
    [i \in DOMAIN col |->
        IF ~IsNull(col[i]) THEN IntCell(Len(Split(col[i].v))) ELSE IntCell(0)]

\* Series.str.lower().str.strip()
JournalClean(col) ==
    [i \in DOMAIN col |->
        IF col[i].t = "str" THEN Str(Strip(Lower(col[i].v))) ELSE NaN]

\* The publish_time column after line 62
ParsedPublishTime(tb) == ToDatetime(tb.data["publish_time"])

\* (variant: the missing years are left unfilled)
YearColumnUnfilled(parsed) == DtYear(parsed)

\* The year column after lines 63 and 66
YearColumn(parsed) == FillNa(DtYear(parsed), DefaultYear)

\* The rows of a table, from row i on, whose cell in column c is not null
RECURSIVE KeptRows(_, _, _)
KeptRows(tb, c, i) ==
    IF i > tb.nrows THEN <<>>
    ELSE IF IsNull(tb.data[c][i]) THEN KeptRows(tb, c, i + 1)
    ELSE <<i>> \o KeptRows(tb, c, i + 1)

\* The table of the rows `rows` of tb
TakeRows(tb, rows) ==
    [columns |-> tb.columns,
     nrows   |-> Len(rows),
     data    |-> [c \in DOMAIN tb.data |-> [k \in DOMAIN rows |-> tb.data[c][rows[k]]]]]

\* (variant: self.df.dropna(subset=['publish_time']).copy())
CopyWithoutUndated(tb) == TakeRows(tb, KeptRows(tb, "publish_time", 1))

\* self.df.copy(), line 59
CopyTable(tb) == tb

\* (variant: the cleaned names overwrite the journal column)
WithJournalInPlace(tb) == SetCol(tb, "journal", JournalClean(tb.data["journal"]))

\* Line 74, on a journal column that holds text
WithJournalClean(tb) == SetCol(tb, "journal_clean", JournalClean(tb.data["journal"]))

\* clean_data on a loaded table: the value left in self.df_clean and the
\* exception that ended the call ("" when it returned).  The .str accessor
\* of line 74 raises AttributeError on a column that is not text (every
\* journal null), after df_clean got its year and abstract_word_count.
CleanData(raw) ==
    LET s59 == CopyTable(raw)
        s62 == SetCol(s59, "publish_time", ParsedPublishTime(s59))
        s66 == SetCol(s62, "year", YearColumn(s62.data["publish_time"]))
        s69 == SetCol(s66, "abstract_word_count", AbstractWordCount(s66.data["abstract"]))
    IN  IF IsObjectColumn(s69.data["journal"])
        THEN [table |-> WithJournalClean(s69), error |-> ""]
        ELSE [table |-> s69, error |-> "AttributeError"]

(***************************************************************************)
(* Series aggregation                                                      *)
(***************************************************************************)
Min2(a, b) == IF a <= b THEN a ELSE b

\* seq.head(n)
HeadN(seq, n) == SubSeq(seq, 1, Min2(n, Len(seq)))

\* The distinct non-null values of a column, in order of first appearance
RECURSIVE Uniq(_, _)
Uniq(col, acc) ==
    IF col = <<>> THEN acc
    ELSE IF IsNull(Head(col)) \/ (\E i \in DOMAIN acc : acc[i] = Head(col))
         THEN Uniq(Tail(col), acc)
         ELSE Uniq(Tail(col), Append(acc, Head(col)))

CountOf(col, x) == Cardinality({i \in DOMAIN col : col[i] = x})

\* (variant: value_counts(ascending=True))
SortByCountAsc(items) ==
    LET n == Len(items)
        Rank(i) == 1 + Cardinality({j \in 1..n :
                        \/ items[j].count < items[i].count
                        \/ items[j].count = items[i].count /\ j < i})
    IN  [p \in 1..n |-> items[CHOOSE i \in 1..n : Rank(i) = p]]

\* Stable sort of items by descending count
SortByCountDesc(items) ==
    LET n == Len(items)
        Rank(i) == 1 + Cardinality({j \in 1..n :
                        \/ items[j].count > items[i].count
                        \/ items[j].count = items[i].count /\ j < i})
    IN  [p \in 1..n |-> items[CHOOSE i \in 1..n : Rank(i) = p]]

\* Series.value_counts(): nulls dropped, descending count, ties in order of
\* first appearance
ValueCounts(col) ==
    LET u == Uniq(col, <<>>)
    IN  SortByCountDesc([i \in DOMAIN u |-> [key |-> u[i], count |-> CountOf(col, u[i])]])

\* Series.sort_index() of counts keyed by a number
SortIndex(items) ==
    LET n == Len(items)
        Rank(i) == 1 + Cardinality({j \in 1..n : items[j].key.v < items[i].key.v})
    IN  [p \in 1..n |-> items[CHOOSE i \in 1..n : Rank(i) = p]]

\* Series.nunique()
NUnique(col) == Len(Uniq(col, <<>>))

RECURSIVE SumCounts(_)
SumCounts(items) ==
    IF items = <<>> THEN 0 ELSE Head(items).count + SumCounts(Tail(items))

MaxCount(items) == CHOOSE c \in {items[i].count : i \in DOMAIN items} :
                       \A i \in DOMAIN items : items[i].count <= c

\* Series.idxmax(): the label of the first maximum
IdxMax(items) ==
    items[CHOOSE i \in DOMAIN items :
             /\ items[i].count = MaxCount(items)
             /\ \A j \in 1..(i - 1) : items[j].count < MaxCount(items)].key

\* Series.min() and Series.max() of a non-empty numeric column
ColMin(col) == CHOOSE m \in {col[i].v : i \in DOMAIN col} : \A i \in DOMAIN col : m <= col[i].v
ColMax(col) == CHOOSE m \in {col[i].v : i \in DOMAIN col} : \A i \in DOMAIN col : m >= col[i].v


(***************************************************************************)
(* app.py: the six views.  A view is handed the analyzer of the session,   *)
(* a = [df, df_clean], and yields the outcome of one call: the exception   *)
(* that ended it ("" when it returned), the widget values it read, the     *)
(* aggregate it displayed and the analyzer as the call leaves it.          *)
(***************************************************************************)
Raised(exc, params, a) == [error |-> exc, params |-> params, agg |-> None, analyzer |-> a]
Shown(params, agg, a) == [error |-> "", params |-> params, agg |-> agg, analyzer |-> a]

NullCount(col) == Cardinality({i \in DOMAIN col : IsNull(col[i])})

\* f"{count / rows * 100:.1f}", in tenths of a percent (round half to even)
PercentTenths(count, rows) ==
    LET q == (1000 * count) \div rows
        r == (1000 * count) % rows
    IN  IF 2 * r > rows \/ (2 * r = rows /\ q % 2 = 1) THEN q + 1 ELSE q

\* missing_data[missing_data > 0]: the columns holding a null, in column order
RECURSIVE MissingData(_, _)
MissingData(tb, cols) ==
    IF cols = <<>> THEN <<>>
    ELSE LET c == Head(cols)
             k == NullCount(tb.data[c])
         IN  IF k > 0
             THEN <<[col |-> c, missing |-> k, pct |-> PercentTenths(k, tb.nrows)]>>
                  \o MissingData(tb, Tail(cols))
             ELSE MissingData(tb, Tail(cols))

MissingShown == 10
FirstRowsShown == 10

\* (variant: the columns are ranked by their null counts before the cut)
MissingListingByCount(tb) ==
    LET items == MissingData(tb, tb.columns)
        n == Len(items)
        Rank(i) == 1 + Cardinality({j \in 1..n :
                        \/ items[j].missing > items[i].missing
                        \/ items[j].missing = items[i].missing /\ j < i})
    IN  HeadN([p \in 1..n |-> items[CHOOSE i \in 1..n : Rank(i) = p]], MissingShown)

MissingListing(tb) == HeadN(MissingData(tb, tb.columns), MissingShown)

show_dataset_overview(a) ==
    IF a.df = None THEN Raised("AttributeError", None, a)
    ELSE Shown(None, [rows       |-> a.df.nrows,
                      columns    |-> Len(a.df.columns),
                      missing    |-> MissingListing(a.df),
                      first_rows |-> Min2(FirstRowsShown, a.df.nrows)], a)

\* The values the year slider can return: min_year <= lo <= hi <= max_year
YearRanges(dc) ==
    IF dc = None \/ dc.nrows = 0 THEN {None}
    ELSE LET lo == ColMin(dc.data["year"])
             hi == ColMax(dc.data["year"])
         IN  {[year_range |-> r] : r \in {x \in (lo..hi) \X (lo..hi) : x[1] <= x[2]}}

\* The index labels of the rows with lo <= year <= hi
RECURSIVE FilterYears(_, _, _, _)
FilterYears(years, i, lo, hi) ==
    IF i > Len(years) THEN <<>>
    ELSE IF years[i].v >= lo /\ years[i].v <= hi
         THEN <<i>> \o FilterYears(years, i + 1, lo, hi)
         ELSE FilterYears(years, i + 1, lo, hi)

YearlyCounts(dc, rows) ==
    SortIndex(ValueCounts([k \in DOMAIN rows |-> dc.data["year"][rows[k]]]))

\* (variant: the filtered frame is stored back in the analyzer)
show_publication_trends_inplace(a, p) ==
    LET dc == a.df_clean
    IN  IF dc = None THEN Raised("TypeError", None, a)
        ELSE IF dc.nrows = 0 THEN Raised("ValueError", None, a)
        ELSE LET rows == FilterYears(dc.data["year"], 1, p.year_range[1], p.year_range[2])
                 yc   == YearlyCounts(dc, rows)
                 b    == [a EXCEPT !.df_clean = TakeRows(dc, rows)]
             IN  IF yc = <<>> THEN Raised("ValueError", p, b)
                 ELSE Shown(p, [filtered      |-> rows,
                                total         |-> Len(rows),
                                yearly_counts |-> yc,
                                mean          |-> [sum |-> SumCounts(yc), n |-> Len(yc)],
                                max_year      |-> IdxMax(yc).v,
                                max_count     |-> MaxCount(yc)], b)

\* int(nan) raises ValueError on a table without rows (line 80).  With no
\* row in the range yearly_counts is empty: idxmax raises ValueError (line
\* 114), unless the bar plot of the empty series (line 103) has raised
\* before it.
show_publication_trends(a, p) ==
    LET dc == a.df_clean
    IN  IF dc = None THEN Raised("TypeError", None, a)
        ELSE IF dc.nrows = 0 THEN Raised("ValueError", None, a)
        ELSE LET rows == FilterYears(dc.data["year"], 1, p.year_range[1], p.year_range[2])
                 yc   == YearlyCounts(dc, rows)
             IN  IF yc = <<>> THEN Raised("ValueError", p, a)
                 ELSE Shown(p, [filtered      |-> rows,
                                total         |-> Len(rows),
                                yearly_counts |-> yc,
                                mean          |-> [sum |-> SumCounts(yc), n |-> Len(yc)],
                                max_year      |-> IdxMax(yc).v,
                                max_count     |-> MaxCount(yc)], a)

TopNMin == 5
TopNMax == 20

\* The values of the top-N slider that are tried: the first TopNSpan + 1
TopNSpan == 2
TopNs == {n \in TopNMin..TopNMax : n <= TopNMin + TopNSpan}

TopJournals(dc, top_n) == HeadN(ValueCounts(dc.data["journal_clean"]), top_n)

\* top_journals.index[0] raises IndexError when no journal is counted
show_journal_analysis(a, p) ==
    LET dc == a.df_clean
    IN  IF dc = None THEN Raised("TypeError", p, a)
        ELSE IF ~HasColumn(dc, "journal_clean") THEN Raised("KeyError", p, a)
        ELSE LET top == TopJournals(dc, p.top_n)
             IN  IF top = <<>> THEN Raised("IndexError", p, a)
                 ELSE Shown(p, [top_journals |-> top,
                                nunique      |-> NUnique(dc.data["journal_clean"])], a)

\* The names app.py binds by its imports (lines 3 to 8)
AppImports == {"st", "pd", "plt", "CORD19Analyzer", "sys", "os"}

TopWordsShown == 20

\* ' '.join(titles.dropna().astype(str)).lower().split()
TitleWords(dc) ==
    LET titles == DropNa(dc.data["title"])
        words  == Split(Lower(Join([i \in DOMAIN titles |-> titles[i].v])))
    IN  [i \in DOMAIN words |-> Str(words[i])]

WordFreq(dc) == HeadN(ValueCounts(TitleWords(dc)), TopWordsShown)

\* WordCloud is looked up among the module's globals at line 154
show_title_analysis(a) ==
    IF a.df_clean = None THEN Raised("TypeError", None, a)
    ELSE IF "WordCloud" \notin AppImports THEN Raised("NameError", None, a)
    ELSE Shown(None, [word_freq |-> WordFreq(a.df_clean)], a)

TopSourcesShown == 10

show_source_analysis(a) ==
    LET dc == a.df_clean
    IN  IF dc = None THEN Raised("TypeError", None, a)
        ELSE LET top == HeadN(ValueCounts(dc.data["source_x"]), TopSourcesShown)
             IN  IF top = <<>> THEN Raised("IndexError", None, a)
                 ELSE Shown(None, [source_counts |-> top,
                                   nunique       |-> NUnique(dc.data["source_x"])], a)

RowsMin == 10
RowsMax == 100

DefaultColumns == <<"title", "journal", "year", "abstract_word_count">>

\* The widget values tried in the Raw Data view
RawParams ==
    {[rows_to_show |-> r, selected_columns |-> c] :
        r \in {RowsMin, RowsMax},
        c \in {DefaultColumns, <<>>}}

\* int(nan) raises ValueError on a table without rows (line 234)
show_raw_data(a, p) ==
    LET dc == a.df_clean
    IN  IF dc = None THEN Raised("AttributeError", p, a)
        ELSE IF dc.nrows = 0 THEN Raised("ValueError", p, a)
        ELSE Shown(p, [shown_rows    |-> Min2(p.rows_to_show, dc.nrows),
                       shown_columns |-> p.selected_columns,
                       total         |-> dc.nrows,
                       columns       |-> Len(dc.columns),
                       years         |-> <<ColMin(dc.data["year"]),
                                           ColMax(dc.data["year"])>>], a)

(***************************************************************************)
(* The input file: what read_csv makes of metadata.csv.  Empty fields are  *)
(* read as NaN; every other field of these columns is text.                *)
(***************************************************************************)
RawColumns == <<"source_x", "title", "abstract", "publish_time", "journal">>

\* The table of a sequence of records
MakeTable(cols, recs) ==
    [columns |-> cols,
     nrows   |-> Len(recs),
     data    |-> [c \in Range(cols) |-> [i \in DOMAIN recs |-> recs[i][c]]]]

RowTemplates ==
    <<
      [source_x |-> Str(<<"P", "M", "C">>),
       title |-> Str(<<"C", "o", "v", "i", "d", " ", "t", "h", "e", " ", "V", "i", "r", "u", "s">>),
       abstract |-> Str(<<"o", "n", "e", " ", "t", "w", "o", " ", "t", "h", "r", "e", "e">>),
       publish_time |-> Str(<<"2", "0", "2", "0", "-", "0", "3", "-", "0", "1">>),
       journal |-> Str(<<" ", "N", "E", "J", "M", " ">>)],
      [source_x |-> Str(<<"W", "H", "O">>),
       title |-> NaN,
       abstract |-> NaN,
       publish_time |-> Str(<<"i", "n", "v", "a", "l", "i", "d">>),
       journal |-> Str(<<"n", "e", "j", "m">>)],
      [source_x |-> Str(<<"P", "M", "C">>),
       title |-> Str(<<"t", "h", "e", " ", " ", "c", "o", "v", "i", "d">>),
       abstract |-> Str(<<" ">>),
       publish_time |-> Str(<<"2", "0", "2", "1", "-", "0", "7", "-", "1", "5">>),
       journal |-> NaN],
      [source_x |-> NaN,
       title |-> Str(<<"V", "i", "r", "u", "s">>),
       abstract |-> Str(<<"a", "\t", "b">>),
       publish_time |-> Str(<<"2", "0", "1", "9", "-", "1", "2", "-", "3", "0">>),
       journal |-> Str(<<"L", "a", "n", "c", "e", "t">>)],
      [source_x |-> Str(<<"W", "H", "O">>),
       title |-> Str(<<"T", "h", "e">>),
       abstract |-> Str(<<"x">>),
       publish_time |-> NaN,
       journal |-> Str(<<"L", "a", "n", "c", "e", "t">>)]
    >>

MaxRows == 4

\* Every sequence of at most n of the row templates
RECURSIVE RowSeqs(_)
RowSeqs(n) ==
    IF n = 0 THEN {<<>>}
    ELSE LET shorter == RowSeqs(n - 1)
         IN  shorter \cup {Append(q, RowTemplates[k]) :
                               q \in {x \in shorter : Len(x) = n - 1},
                               k \in DOMAIN RowTemplates}

MixedTables == {MakeTable(RawColumns, q) : q \in RowSeqs(MaxRows)}

\* Tables that differ in their journals only: each journal of
\* JournalNames in zero to MaxRep rows, in the order of the list
JournalNames ==
    <<<<"L", "a", "n", "c", "e", "t">>,
      <<" ", "N", "E", "J", "M", " ">>,
      <<"B", "M", "J">>,
      <<"n", "e", "j", "m">>,
      <<"C", "e", "l", "l">>,
      <<"J", "A", "M", "A">>,
      <<"G", "u", "t">>>>

MaxRep == 1

Repeat(x, n) == [i \in 1..n |-> x]

RECURSIVE JournalRows(_, _)
JournalRows(reps, j) ==
    IF j > Len(JournalNames) THEN <<>>
    ELSE Repeat([RowTemplates[1] EXCEPT !.journal = Str(JournalNames[j])], reps[j])
         \o JournalRows(reps, j + 1)

JournalTables ==
    {MakeTable(RawColumns, JournalRows(reps, 1)) :
        reps \in [DOMAIN JournalNames -> 0..MaxRep]}

\* Tables with further columns, passed through by the analyzer.  Every
\* column holds a null in its first row, but for two columns a and b that
\* hold one in their first ca and cb rows.
WideColumns ==
    <<"cord_uid", "sha", "source_x", "title", "doi", "pmcid", "pubmed_id",
      "license", "abstract", "publish_time", "authors", "journal">>

WideRows == 2

WideText(c) == IF c = "publish_time" THEN RowTemplates[1].publish_time
               ELSE RowTemplates[1].source_x

WideTable(a, ca, b, cb) ==
    [columns |-> WideColumns,
     nrows   |-> WideRows,
     data    |-> [c \in Range(WideColumns) |->
                    [i \in 1..WideRows |->
                        LET k == IF c = WideColumns[a] THEN ca
                                 ELSE IF c = WideColumns[b] THEN cb
                                 ELSE 1
                        IN  IF i <= k THEN NaN ELSE Str(WideText(c).v)]]]

WideTables ==
    {WideTable(a, ca, b, cb) :
        a \in DOMAIN WideColumns, ca \in 0..WideRows,
        b \in DOMAIN WideColumns, cb \in 0..WideRows}

(***************************************************************************)
(* The session: st.session_state, the analyzer it holds, and the last run  *)
(* of the script.                                                          *)
(***************************************************************************)
VARIABLES file, has_analyzer, df, df_clean, run

vars == <<file, has_analyzer, df, df_clean, run>>

\* A session before the script's first run, with `files` the inputs tried
Start(files) ==
    /\ file \in files
    /\ has_analyzer = FALSE
    /\ df = None
    /\ df_clean = None
    /\ run = [section |-> "", view |-> "", status |-> "idle",
              error |-> "", params |-> None, agg |-> None]

Init == Start({Missing} \cup MixedTables)
InitJournals == Start(JournalTables)
InitWide == Start(WideTables)

\* Lines 26 to 31 of main(): the analyzer after the block, and how the
\* block ended ("" when main() goes on to the views).
Initialize ==
    IF has_analyzer THEN [analyzer |-> [df |-> df, df_clean |-> df_clean], end |-> ""]
    ELSE LET loaded == LoadData(file)
         IN  IF loaded = None
             THEN [analyzer |-> [df |-> None, df_clean |-> None], end |-> "blocked"]
             ELSE LET c == CleanData(loaded)
                  IN  [analyzer |-> [df |-> loaded, df_clean |-> c.table],
                       end |-> c.error]

NoView(section, status, exc) ==
    [section |-> section, view |-> "", status |-> status,
     error |-> exc, params |-> None, agg |-> None]

\* One run of main() with `section` chosen in the radio; the first run of
\* a session has the radio at its first option.  `outcome` is the call of
\* the view function `fn` on the analyzer the block leaves.
Main(section, fn, outcome) ==
    LET s == Initialize
    IN  /\ has_analyzer \/ section = "Dataset Overview"
        /\ has_analyzer' = TRUE
        /\ IF s.end = "blocked"
           THEN /\ df' = s.analyzer.df
                /\ df_clean' = s.analyzer.df_clean
                /\ run' = NoView(section, "blocked", "")
           ELSE IF s.end # ""
           THEN /\ df' = s.analyzer.df
                /\ df_clean' = s.analyzer.df_clean
                /\ run' = NoView(section, "raised", s.end)
           ELSE /\ df' = outcome.analyzer.df
                /\ df_clean' = outcome.analyzer.df_clean
                /\ run' = [section |-> section, view |-> fn,
                           status |-> IF outcome.error = "" THEN "done" ELSE "raised",
                           error |-> outcome.error, params |-> outcome.params,
                           agg |-> outcome.agg]
        /\ UNCHANGED file

DatasetOverview ==
    Main("Dataset Overview", "show_dataset_overview",
         show_dataset_overview(Initialize.analyzer))

PublicationTrends ==
    \E p \in YearRanges(Initialize.analyzer.df_clean) :
        Main("Publication Trends", "show_publication_trends",
             show_publication_trends(Initialize.analyzer, p))

JournalAnalysis ==
    \E n \in TopNs :
        Main("Journal Analysis", "show_journal_analysis",
             show_journal_analysis(Initialize.analyzer, [top_n |-> n]))

TitleAnalysis ==
    Main("Title Analysis", "show_title_analysis",
         show_title_analysis(Initialize.analyzer))

SourceAnalysis ==
    Main("Source Analysis", "show_source_analysis",
         show_source_analysis(Initialize.analyzer))

RawData ==
    \E p \in RawParams :
        Main("Raw Data", "show_raw_data", show_raw_data(Initialize.analyzer, p))

Next ==
    \/ DatasetOverview
    \/ PublicationTrends
    \/ JournalAnalysis
    \/ TitleAnalysis
    \/ SourceAnalysis
    \/ RawData

Spec == Init /\ [][Next]_vars
SpecJournals == InitJournals /\ [][Next]_vars
SpecWide == InitWide /\ [][Next]_vars


(***************************************************************************)
(* Properties                                                              *)
(***************************************************************************)

\* C1: no view function is executed in a session whose load failed: in
\* every state in which a view has been called the clean table exists.
C1_ViewsGatedByLoad == run.view # "" => df_clean # None

\* C2: once the clean table exists, no run of the script (no view, with any
\* widget value) changes it or derives it again.
C2_CleanTableImmutable == [][df_clean # None => df_clean' = df_clean]_vars

\* A view has filtered the clean table down to some of its rows.
C2_Witness ==
    /\ df_clean # None
    /\ run.view = "show_publication_trends"
    /\ run.status = "done"
    /\ Len(run.agg.filtered) < df_clean.nrows

\* C3: after clean_data every row has a year that is a number and not
\* null: the calendar year of publish_time where that parses as a date, and
\* 2020 where it is missing or does not parse.
C3_YearDefined ==
    df_clean # None =>
        \A i \in 1..df.nrows :
            LET y  == df_clean.data["year"][i]
                pt == df.data["publish_time"][i]
            IN  /\ y.t \in {"int", "float"}
                /\ y.v = IF pt.t = "str" /\ ParseDate(pt.v).t = "ts"
                         THEN ParseDate(pt.v).v[1]
                         ELSE 2020

\* The scenario ["2020-03-01", "invalid", "2021-07-15"] -> [2020, 2020, 2021]
C3_Witness ==
    /\ df_clean # None
    /\ df.data["publish_time"] = <<RowTemplates[1].publish_time,
                                   RowTemplates[2].publish_time,
                                   RowTemplates[3].publish_time>>
    /\ [i \in 1..3 |-> df_clean.data["year"][i].v] = <<2020, 2020, 2021>>

\* C4: the clean table has exactly the rows of the raw table, in every
\* column, whatever is null or unparsable in them.
C4_RowCountPreserved ==
    df_clean # None =>
        /\ df_clean.nrows = df.nrows
        /\ \A c \in DOMAIN df_clean.data : Len(df_clean.data[c]) = df.nrows

\* A cleaned table with a null publish_time, a null abstract and a null journal
C4_Witness ==
    /\ df_clean # None
    /\ df_clean.nrows >= 3
    /\ \E i \in 1..df.nrows : df.data["publish_time"][i] = NaN
    /\ \E i \in 1..df.nrows : df.data["abstract"][i] = NaN
    /\ \E i \in 1..df.nrows : df.data["journal"][i] = NaN

\* C5 as claimed: when clean_data has returned, every column of the raw
\* table is in the clean table with the same value in every row,
\* publish_time included.
C5_AllColumnsUnchanged ==
    (df_clean # None /\ HasColumn(df_clean, "journal_clean")) =>
        \A c \in Range(df.columns) :
            HasColumn(df_clean, c) /\ df_clean.data[c] = df.data[c]

\* C5 as amended: the clean table keeps the raw table's columns, in their
\* order, and adds none but year, abstract_word_count and journal_clean;
\* every original column but publish_time has the same value in every
\* row, and publish_time holds the parsed date, NaT where the text is
\* missing or does not parse.
C5_OtherColumnsUnchanged ==
    df_clean # None =>
        /\ Len(df_clean.columns) >= Len(df.columns)
        /\ SubSeq(df_clean.columns, 1, Len(df.columns)) = df.columns
        /\ Range(df_clean.columns) \ Range(df.columns)
              \subseteq {"year", "abstract_word_count", "journal_clean"}
        /\ \A c \in Range(df.columns) \ {"publish_time"} :
              df_clean.data[c] = df.data[c]
        /\ \A i \in 1..df.nrows :
              LET pt == df.data["publish_time"][i]
              IN  df_clean.data["publish_time"][i] =
                     IF pt.t = "str" THEN ParseDate(pt.v) ELSE NaT

\* A cleaned table in which a publish_time text has become a Timestamp and
\* a journal differs from its cleaned name
C5_Witness ==
    /\ df_clean # None
    /\ HasColumn(df_clean, "journal_clean")
    /\ \E i \in 1..df.nrows :
          /\ df.data["publish_time"][i].t = "str"
          /\ df_clean.data["publish_time"][i].t = "ts"
          /\ df_clean.data["journal_clean"][i] # df_clean.data["journal"][i]

\* C6: clean_data applied to its own output leaves it as it is.
C6_CleanIdempotent ==
    df_clean # None => CleanData(df_clean).table = df_clean

\* A cleaned table holding a parsed date, a defaulted year and a journal
\* whose cleaning changed it
C6_Witness ==
    /\ df_clean # None
    /\ HasColumn(df_clean, "journal_clean")
    /\ \E i \in 1..df_clean.nrows : df_clean.data["publish_time"][i].t = "ts"
    /\ \E i \in 1..df_clean.nrows : df_clean.data["publish_time"][i].t = "nat"
    /\ \E i \in 1..df_clean.nrows :
          df_clean.data["journal_clean"][i] # df_clean.data["journal"][i]

JournalShown == run.view = "show_journal_analysis" /\ run.status = "done"

\* The counts of the list are the counts of distinct journals, at most
\* top_n of them, and no journal left out is counted more often than one
\* of the list.
TopNSound ==
    LET top == run.agg.top_journals
        col == df_clean.data["journal_clean"]
    IN  /\ Len(top) <= run.params.top_n
        /\ \A i \in DOMAIN top : top[i].count = CountOf(col, top[i].key)
        /\ \A i, j \in DOMAIN top : i # j => top[i].key # top[j].key
        /\ \A x \in Range(DropNa(col)) \ {top[i].key : i \in DOMAIN top} :
              \A i \in DOMAIN top : CountOf(col, x) <= top[i].count

\* C7 as claimed: the top-N list has at most top_n entries, is strictly
\* descending by count, and no journal outside it has a count above the
\* smallest inside it.
C7_TopNStrictlyDescending ==
    JournalShown =>
        /\ TopNSound
        /\ \A i \in 1..(Len(run.agg.top_journals) - 1) :
              run.agg.top_journals[i].count > run.agg.top_journals[i + 1].count

\* C7 as amended: the same, with the counts never increasing down the list
\* (journals of equal count follow one another).
C7_TopNNonIncreasing ==
    JournalShown =>
        /\ TopNSound
        /\ \A i \in 1..(Len(run.agg.top_journals) - 1) :
              run.agg.top_journals[i].count >= run.agg.top_journals[i + 1].count

\* The list is cut at top_n and a journal is left out of it
C7_Witness ==
    /\ JournalShown
    /\ Len(run.agg.top_journals) = run.params.top_n
    /\ NUnique(df_clean.data["journal_clean"]) > run.params.top_n
    /\ run.agg.top_journals[1].count > run.agg.top_journals[2].count

\* C8: for a year range within the observed years the Publication Trends
\* view completes and shows exactly the rows of the range, their counts per
\* year in ascending order of year, the mean of the counts and a year of
\* the greatest count.
C8_TrendsCompletes ==
    (run.view = "show_publication_trends" /\ df_clean # None /\ df_clean.nrows > 0) =>
        /\ run.status = "done"
        /\ LET years == df_clean.data["year"]
               lo == run.params.year_range[1]
               hi == run.params.year_range[2]
               yc == run.agg.yearly_counts
           IN  /\ Range(run.agg.filtered) =
                     {i \in 1..df_clean.nrows : years[i].v >= lo /\ years[i].v <= hi}
               /\ run.agg.total = Len(run.agg.filtered)
               /\ \A k \in 1..(Len(yc) - 1) : yc[k].key.v < yc[k + 1].key.v
               /\ \A k \in DOMAIN yc :
                     yc[k].count = Cardinality({i \in Range(run.agg.filtered) :
                                                   years[i].v = yc[k].key.v})
               /\ run.agg.mean.sum = run.agg.total /\ run.agg.mean.n = Len(yc)
               /\ \E k \in DOMAIN yc :
                     /\ yc[k].key.v = run.agg.max_year
                     /\ \A j \in DOMAIN yc : yc[j].count <= yc[k].count

OverviewShown == run.view = "show_dataset_overview" /\ run.status = "done"

ColumnPos(c) == CHOOSE k \in DOMAIN df.columns : df.columns[k] = c

\* Each line of the listing gives a column's null count and that count as
\* a percentage of the rows, to a tenth of a percent.
ListingFigures ==
    \A i \in DOMAIN run.agg.missing :
        LET l == run.agg.missing[i]
            d == l.pct * df.nrows - 1000 * l.missing
        IN  /\ HasColumn(df, l.col)
            /\ l.missing = NullCount(df.data[l.col])
            /\ l.missing > 0
            /\ 2 * d <= df.nrows /\ 2 * d >= 0 - df.nrows

\* C9 as claimed: the listing shows the up to 10 columns of the largest
\* null counts: no column left out has more nulls than a listed one.
C9_MissingTopByCount ==
    OverviewShown =>
        /\ Len(run.agg.missing) <= 10
        /\ ListingFigures
        /\ \A c \in Range(df.columns) \ {run.agg.missing[i].col : i \in DOMAIN run.agg.missing} :
              \A i \in DOMAIN run.agg.missing :
                  NullCount(df.data[c]) <= run.agg.missing[i].missing

\* C9 as amended: the listing shows the first (up to) 10 columns, in the
\* table's column order, that hold a null, each with its null count and
\* percentage.
C9_MissingFirstInColumnOrder ==
    OverviewShown =>
        LET listed == {run.agg.missing[i].col : i \in DOMAIN run.agg.missing}
            holed  == {c \in Range(df.columns) : NullCount(df.data[c]) > 0}
        IN  /\ Len(run.agg.missing) = Min2(10, Cardinality(holed))
            /\ ListingFigures
            /\ \A i, j \in DOMAIN run.agg.missing :
                  i < j => ColumnPos(run.agg.missing[i].col) < ColumnPos(run.agg.missing[j].col)
            /\ \A c \in holed \ listed :
                  \A d \in listed : ColumnPos(d) < ColumnPos(c)

\* More than 10 columns hold a null, and one left out holds more than a
\* listed one
C9_Witness ==
    /\ OverviewShown
    /\ Len(run.agg.missing) = 10
    /\ \E c \in Range(df.columns) :
          /\ \A i \in DOMAIN run.agg.missing : run.agg.missing[i].col # c
          /\ \E i \in DOMAIN run.agg.missing :
                NullCount(df.data[c]) > run.agg.missing[i].missing

\* C10: in an initialised session the Title Analysis view completes and
\* shows the 20 most frequent tokens of the lower-cased, whitespace-split
\* concatenation of the titles that are not null.
C10_TitleAnalysisCompletes ==
    (run.view = "show_title_analysis" /\ df_clean # None) =>
        /\ run.status = "done"
        /\ run.agg.word_freq = WordFreq(df_clean)

====
